---- MODULE Spec2Model ----
(***************************************************************************)
(* A model of the qci client (src/qci/api.py, src/qci/classes.py).         *)
(*                                                                         *)
(* Python strings are sequences of tokens: '' is <<>>, concatenation is    *)
(* \o.  Python's None / False / True are the strings "None", "False",      *)
(* "True".  Exceptions are named by their class.                           *)
(*                                                                         *)
(* Spec       : upload_datapackage and upload_datapackages, with the       *)
(*              ThreadPool of multiprocessing.pool as the code uses it.    *)
(* SpecQuery  : DataPackage.validate, list_tests, get_report_pdf.          *)
(***************************************************************************)
EXTENDS Naturals, Sequences, FiniteSets, TLC

\* Longest list handed to upload_datapackages.
MaxLen == 5
\* Cap on the number of upload_datapackage calls that pass type validation
\* (each leaves a temporary file behind) over a whole run.
MaxTmp == 5
\* os.cpu_count() of the machines modelled: ThreadPool() starts that many workers.
CpuCounts == {1, 2}

VARIABLES
    tracebacklimit,  \* sys.tracebacklimit: <<>> while the attribute is unset, <<n>> once set to n
    tmpfiles,        \* temporary files on disk: path -> content
    openFds,         \* open OS-level file descriptors of the process
    passed,          \* number of upload_datapackage calls that passed validate_datapackage
    posts,           \* HTTP POSTs issued during the current client call
    op,              \* the client's (main thread's) current call
    dps,             \* the datapackages of the current call (one element for a direct call)
    pool,            \* the ThreadPool and the MapResult of the current bulk call
    frames,          \* frames[i]: the upload_datapackage call on dps[i]
    ret,             \* outcome of the last DataPackage.validate / list_tests / get_report_pdf call
    disk             \* report files written by get_report_pdf: name -> content

vars == <<tracebacklimit, tmpfiles, openFds, passed, posts, op, dps, pool, frames, ret, disk>>
uploadVars == <<tracebacklimit, tmpfiles, openFds, passed, posts, op, dps, pool, frames>>
queryVars == <<ret, disk>>

------------------------------------------------------------------------------
(* Values *)

AccessTokens == {<<>>, <<"tok">>}
PrimaryIds == {<<"COtGx1234">>, <<"COtGx5678">>}
SecondaryIds == {<<>>, <<"S1">>}

\* DataPackage.__init__: the three arguments are stored as given.
DataPackage(access_token, primary_id, secondary_id) ==
    [cls |-> "DataPackage", access_token |-> access_token,
     primary_id |-> primary_id, secondary_id |-> secondary_id]

\* Something that is not a DataPackage (a str handed over by mistake).
NotADataPackage ==
    [cls |-> "str", access_token |-> <<>>, primary_id |-> <<>>, secondary_id |-> <<>>]

\* The objects a caller hands to the upload functions.
UploadObjects ==
    {DataPackage(t, <<"COtGx1234">>, <<>>) : t \in AccessTokens} \cup {NotADataPackage}

\* The names an instance of DataPackage answers to: the attributes __init__ sets,
\* the access_token property and the methods.  There is no primary_id.
DataPackageAttrs ==
    {"_access_token", "_primary_id", "_secondary_id",
     "access_token", "to_xml", "validate", "__str__"}

\* DataPackage.to_xml: '' followed by the primary id.
ToXml(dp) == <<>> \o dp.primary_id

BASE_URL == <<"https://api.ingenuity.com/">>

\* urljoin(BASE_URL, path) for a path starting with '/': the path replaces the
\* base's own path '/'.
UrlJoin(base, path) == <<"https://api.ingenuity.com">> \o path

Bearer(access_token) == <<"Bearer ">> \o access_token

------------------------------------------------------------------------------
(* upload_datapackage *)

\* Variant: a validate_datapackage that lets everything through.
IsInstanceNot(dp) == TRUE
\* isinstance(datapackage, DataPackage)
IsInstance(dp) == dp.cls = "DataPackage"

\* What tempfile.mkstemp returns first: an OS-level descriptor, an int.
MkstempFdType == "int"

\* hasattr(<value of type>, name): an int has neither write nor read.
HasAttr(type, name) == type = "file" /\ name \in {"write", "read"}

\* Variant: one fixed path for every call instead of a fresh name.
MkstempPathFixed(files) == 1
\* tempfile.mkstemp's path: a name no existing file has.
MkstempPath(files) == Cardinality(DOMAIN files) + 1

\* The descriptor mkstemp opens: the lowest one free; none is ever closed.
MkstempFd(fds) == 3 + Cardinality(fds)

\* file.read() at position pos of a file holding content.
ReadFrom(content, pos) == SubSeq(content, pos + 1, Len(content))

NoFrame == [pc |-> "pending", n |-> 0, path |-> 0, fd |-> 0, ret |-> "None"]

Active == {"validate", "mkstemp", "write"}
Raised == {"ValueError", "AttributeError"}
Finished == Raised \cup {"returned"}

------------------------------------------------------------------------------
(* ThreadPool.map *)

\* Pool._map_async: chunksize, extra = divmod(len(iterable), len(pool) * 4);
\* one more when extra; 0 for an empty iterable.
ChunkSize(len, processes) ==
    IF len = 0 THEN 0
    ELSE (len \div (processes * 4)) + (IF len % (processes * 4) # 0 THEN 1 ELSE 0)

\* Pool._get_tasks: the number of chunks of an iterable of len elements.
NumChunks(len, chunksize) ==
    IF len = 0 THEN 0 ELSE (len + chunksize - 1) \div chunksize

ChunkOf(i) == ((i - 1) \div pool.chunksize) + 1
FirstOf(c) == (c - 1) * pool.chunksize + 1
LastOf(c) == IF c * pool.chunksize < Len(dps) THEN c * pool.chunksize ELSE Len(dps)

\* Chunks a worker is running.
InFlight == {c \in 1..pool.chunks : \E i \in FirstOf(c)..LastOf(c) : frames[i].pc \in Active}

NoPool == [state |-> "none", processes |-> 0, chunksize |-> 0, chunks |-> 0,
           number_left |-> 0, success |-> TRUE, value |-> "None"]

\* MapResult._set(i, (success, result)): one chunk less to wait for; only the
\* first failure is stored.
MapResultSet(p, success, result) ==
    [p EXCEPT !.number_left = @ - 1,
              !.success = p.success /\ success,
              !.value = IF ~success /\ p.success THEN result ELSE @]

\* Variant: a get() that drops the stored exception.
MapResultGetSwallow(p) == [raise |-> FALSE, value |-> "list"]
\* MapResult.get(): the list of results if every chunk succeeded, else the
\* stored exception is raised.
MapResultGet(p) ==
    IF p.success THEN [raise |-> FALSE, value |-> "list"]
    ELSE [raise |-> TRUE, value |-> p.value]

------------------------------------------------------------------------------
(* State *)

Quiescent == {"returned", "raised"}

NoOp == [name |-> "none", pc |-> "idle", exc |-> "None", ret |-> "None"]

NoRet == [op |-> "none"]

Init ==
    /\ tracebacklimit = <<>>
    /\ tmpfiles = <<>>
    /\ openFds = {}
    /\ passed = 0
    /\ posts = {}
    /\ op = NoOp
    /\ dps = <<>>
    /\ pool = NoPool
    /\ frames = <<>>
    /\ ret = NoRet
    /\ disk = <<>>

\* The client calls upload_datapackage(dp) on the main thread.
UploadDatapackage(dp) ==
    /\ op.pc = "idle"
    /\ passed + 1 <= MaxTmp
    /\ op' = [name |-> "upload_datapackage", pc |-> "running", exc |-> "None", ret |-> "None"]
    /\ dps' = <<dp>>
    /\ frames' = <<[NoFrame EXCEPT !.pc = "validate", !.n = 1]>>
    /\ pool' = NoPool
    /\ posts' = {}
    /\ UNCHANGED <<tracebacklimit, tmpfiles, openFds, passed, ret, disk>>

\* upload_datapackages, lines 102-107 up to the dispatch of the chunks:
\* the traceback limit, the pool, and map's task batches.
UploadDatapackages(list, debug, cpus) ==
    /\ op.pc = "idle"
    /\ passed + Len(list) <= MaxTmp
    /\ tracebacklimit' = IF ~debug THEN <<0>> ELSE tracebacklimit
    /\ op' = [name |-> "upload_datapackages", pc |-> "map", exc |-> "None", ret |-> "None"]
    /\ dps' = list
    /\ frames' = [i \in 1..Len(list) |-> NoFrame]
    /\ LET cs == ChunkSize(Len(list), cpus)
       IN pool' = [state |-> "RUN", processes |-> cpus, chunksize |-> cs,
                   chunks |-> NumChunks(Len(list), cs),
                   number_left |-> NumChunks(Len(list), cs),
                   success |-> TRUE, value |-> "None"]
    /\ posts' = {}
    /\ UNCHANGED <<tmpfiles, openFds, passed, ret, disk>>

\* An idle worker takes the next chunk off the task queue and enters
\* upload_datapackage on its first element (mapstar: list(map(func, chunk))).
TakeChunk(c) ==
    /\ op.name = "upload_datapackages"
    /\ pool.state = "RUN"
    /\ c \in 1..pool.chunks
    /\ frames[FirstOf(c)].pc = "pending"
    /\ \A b \in 1..(c - 1) : frames[FirstOf(b)].pc # "pending"
    /\ Cardinality(InFlight) < pool.processes
    /\ frames' = [frames EXCEPT ![FirstOf(c)].pc = "validate", ![FirstOf(c)].n = @ + 1]
    /\ UNCHANGED <<tracebacklimit, tmpfiles, openFds, passed, posts, op, dps, pool, ret, disk>>

\* The call on dps[i] ends: outcome is an exception's class or "returned".
\* A direct call ends the client's call.  In a pool, an exception ends the
\* chunk (the rest of the chunk is never called) and a return moves on to the
\* chunk's next element; the chunk's end is reported to the MapResult.
Exit(i, outcome, value, fr) ==
    LET done == [fr EXCEPT ![i].pc = outcome, ![i].ret = value]
    IN IF op.name = "upload_datapackage"
       THEN /\ frames' = done
            /\ op' = [op EXCEPT !.pc = IF outcome \in Raised THEN "raised" ELSE "returned",
                                !.exc = IF outcome \in Raised THEN outcome ELSE "None",
                                !.ret = value]
            /\ pool' = pool
       ELSE /\ op' = op
            /\ IF outcome \in Raised
               THEN /\ frames' = done
                    /\ pool' = MapResultSet(pool, FALSE, outcome)
               ELSE IF i = LastOf(ChunkOf(i))
               THEN /\ frames' = done
                    /\ pool' = MapResultSet(pool, TRUE, "list")
               ELSE /\ frames' = [done EXCEPT ![i + 1].pc = "validate", ![i + 1].n = @ + 1]
                    /\ pool' = pool

\* upload_datapackage line 66: validate_datapackage(datapackage).
Validate(i) ==
    /\ i \in 1..Len(frames)
    /\ frames[i].pc = "validate"
    /\ IF IsInstance(dps[i])
       THEN /\ frames' = [frames EXCEPT ![i].pc = "mkstemp"]
            /\ passed' = passed + 1
            /\ UNCHANGED <<op, pool>>
       ELSE /\ Exit(i, "ValueError", "None", frames)
            /\ passed' = passed
    /\ UNCHANGED <<tracebacklimit, tmpfiles, openFds, posts, dps, ret, disk>>

\* upload_datapackage line 69: tempfile.mkstemp creates an empty file and
\* leaves its descriptor open.
Mkstemp(i) ==
    /\ i \in 1..Len(frames)
    /\ frames[i].pc = "mkstemp"
    /\ LET path == MkstempPath(tmpfiles)
           fd == MkstempFd(openFds)
       IN /\ tmpfiles' = tmpfiles @@ (path :> <<>>)
          /\ openFds' = openFds \cup {fd}
          /\ frames' = [frames EXCEPT ![i].pc = "write", ![i].path = path, ![i].fd = fd]
    /\ UNCHANGED <<tracebacklimit, passed, posts, op, dps, pool, ret, disk>>

\* upload_datapackage lines 70-93: datapackage_fd.write(...), the headers,
\* datapackage_fd.read(), requests.post and resp.json().  The attribute write
\* is looked up on the descriptor before to_xml() is called.
WriteAndPost(i) ==
    /\ i \in 1..Len(frames)
    /\ frames[i].pc = "write"
    /\ IF ~HasAttr(MkstempFdType, "write")
       THEN /\ Exit(i, "AttributeError", "None", frames)
            /\ UNCHANGED <<tmpfiles, posts>>
       ELSE LET content == tmpfiles[frames[i].path] \o ToXml(dps[i])
            IN /\ tmpfiles' = [tmpfiles EXCEPT ![frames[i].path] = content]
               /\ posts' = posts \cup
                     {[item |-> i,
                       url |-> UrlJoin(BASE_URL, <<"/v1/datapackages">>),
                       auth |-> Bearer(dps[i].access_token),
                       file |-> ReadFrom(content, Len(content))]}
               /\ Exit(i, "returned", "json", frames)
    /\ UNCHANGED <<tracebacklimit, openFds, passed, dps, ret, disk>>

\* upload_datapackages line 107: map returns once every chunk has reported.
MapReturn ==
    /\ op.name = "upload_datapackages"
    /\ op.pc = "map"
    /\ pool.number_left = 0
    /\ LET got == MapResultGet(pool)
       IN op' = IF got.raise
                THEN [op EXCEPT !.pc = "raised", !.exc = got.value]
                ELSE [op EXCEPT !.pc = "close"]
    /\ UNCHANGED <<tracebacklimit, tmpfiles, openFds, passed, posts, dps, pool, frames, ret, disk>>

\* upload_datapackages line 108: qci_upload_pool.close().
PoolClose ==
    /\ op.pc = "close"
    /\ pool' = [pool EXCEPT !.state = "CLOSE"]
    /\ op' = [op EXCEPT !.pc = "join"]
    /\ UNCHANGED <<tracebacklimit, tmpfiles, openFds, passed, posts, dps, frames, ret, disk>>

\* upload_datapackages line 109: qci_upload_pool.join(), then the function
\* falls off its end and returns None.
PoolJoin ==
    /\ op.pc = "join"
    /\ InFlight = {}
    /\ pool' = [pool EXCEPT !.state = "JOINED"]
    /\ op' = [op EXCEPT !.pc = "returned", !.ret = "None"]
    /\ UNCHANGED <<tracebacklimit, tmpfiles, openFds, passed, posts, dps, frames, ret, disk>>

\* The client's call is over: its frame, its arguments and the objects local to
\* it are gone; what the process and the disk hold stays.
CallOver ==
    /\ op.pc \in Quiescent
    /\ op' = NoOp
    /\ dps' = <<>>
    /\ frames' = <<>>
    /\ pool' = NoPool
    /\ posts' = {}
    /\ UNCHANGED <<tracebacklimit, tmpfiles, openFds, passed, ret, disk>>

Next ==
    \/ \E dp \in UploadObjects : UploadDatapackage(dp)
    \/ /\ op.pc = "idle"
       /\ \E n \in 0..MaxLen :
              \E list \in [1..n -> UploadObjects], debug \in BOOLEAN, cpus \in CpuCounts :
                  UploadDatapackages(list, debug, cpus)
    \/ \E c \in 1..MaxLen : TakeChunk(c)
    \/ \E i \in 1..MaxLen : Validate(i)
    \/ \E i \in 1..MaxLen : Mkstemp(i)
    \/ \E i \in 1..MaxLen : WriteAndPost(i)
    \/ MapReturn
    \/ PoolClose
    \/ PoolJoin
    \/ CallOver

Spec == Init /\ [][Next]_vars

------------------------------------------------------------------------------
(* DataPackage.validate *)

ValidatablePackages ==
    {DataPackage(t, p, s) : t \in AccessTokens, p \in PrimaryIds, s \in SecondaryIds}

\* One of the two identical blocks of DataPackage.validate (lines 21-25 and
\* 26-30): with no access token, debug formats a message from self.primary_id
\* and raises ValueError, and otherwise False is returned; with a token the
\* block is passed (rest).
ValidateBlock(dp, debug, rest) ==
    IF dp.access_token = <<>>
    THEN IF debug
         THEN IF "primary_id" \in DataPackageAttrs
              THEN [outcome |-> "raised", exc |-> "ValueError", value |-> "None",
                    msg |-> <<"DataPackage for ID ">> \o dp.primary_id
                            \o <<" failed validation (no access token set)">>]
              ELSE [outcome |-> "raised", exc |-> "AttributeError", value |-> "None",
                    msg |-> <<"'DataPackage' object has no attribute 'primary_id'">>]
         ELSE [outcome |-> "returned", exc |-> "None", value |-> "False", msg |-> <<>>]
    ELSE rest

\* DataPackage.validate(debug): the two blocks, then the end of the function,
\* which returns None.
ValidateResult(dp, debug) ==
    ValidateBlock(dp, debug,
        ValidateBlock(dp, debug,
            [outcome |-> "returned", exc |-> "None", value |-> "None", msg |-> <<>>]))

\* bool(v) for the values validate returns.
Truthy(v) == v \notin {"None", "False"}

DataPackageValidate(dp, debug) ==
    /\ ret' = [op |-> "validate", dp |-> dp, debug |-> debug,
               result |-> ValidateResult(dp, debug)]
    /\ UNCHANGED disk
    /\ UNCHANGED uploadVars

------------------------------------------------------------------------------
(* list_tests *)

States == {<<>>, <<"final">>}
StartDates == {<<>>, <<"2015-04-28">>}
EndDates == {<<>>, <<"2015-04-29">>}
Sorts == {<<>>, <<"receivedDateAsc">>}

\* Variant: sort is appended whether or not sort_by is set.
ListTestsUrlAlwaysSort(state, start_date, end_date, sort_by) ==
    UrlJoin(BASE_URL, <<"/v1/clinical", "?", "state", "=">> \o state)
        \o (IF start_date # <<>> THEN <<"&", "startReceivedDate", "=">> \o start_date ELSE <<>>)
        \o (IF end_date # <<>> THEN <<"&", "endReceivedDate", "=">> \o end_date ELSE <<>>)
        \o <<"&", "sort", "=">> \o sort_by
\* list_tests lines 226-233: the URL always carries state=<state>; the three
\* other parameters are appended when their argument is not empty.
ListTestsUrl(state, start_date, end_date, sort_by) ==
    UrlJoin(BASE_URL, <<"/v1/clinical", "?", "state", "=">> \o state)
        \o (IF start_date # <<>> THEN <<"&", "startReceivedDate", "=">> \o start_date ELSE <<>>)
        \o (IF end_date # <<>> THEN <<"&", "endReceivedDate", "=">> \o end_date ELSE <<>>)
        \o (IF sort_by # <<>> THEN <<"&", "sort", "=">> \o sort_by ELSE <<>>)

\* list_tests: one GET; ok is whether the request and resp.json() succeed.
ListTests(access_token, state, start_date, end_date, sort_by, ok) ==
    /\ ret' = [op |-> "list_tests",
               state |-> state, start_date |-> start_date,
               end_date |-> end_date, sort_by |-> sort_by,
               url |-> ListTestsUrl(state, start_date, end_date, sort_by),
               auth |-> Bearer(access_token),
               outcome |-> IF ok THEN "returned" ELSE "raised",
               value |-> IF ok THEN "json" ELSE "None"]
    /\ UNCHANGED disk
    /\ UNCHANGED uploadVars

\* How a server reads a URL: the query is what follows the first '?', its
\* parameters are separated by '&', a parameter's key ends at its first '='.
IndexOf(seq, tok) ==
    IF \E k \in 1..Len(seq) : seq[k] = tok
    THEN CHOOSE k \in 1..Len(seq) : seq[k] = tok /\ \A j \in 1..(k - 1) : seq[j] # tok
    ELSE 0

RECURSIVE SplitOn(_, _)
SplitOn(seq, sep) ==
    LET k == IndexOf(seq, sep)
    IN IF k = 0 THEN <<seq>>
       ELSE <<SubSeq(seq, 1, k - 1)>> \o SplitOn(SubSeq(seq, k + 1, Len(seq)), sep)

QueryOf(url) ==
    LET k == IndexOf(url, "?")
    IN IF k = 0 THEN <<>> ELSE SubSeq(url, k + 1, Len(url))

QueryParams(url) ==
    LET parts == SplitOn(QueryOf(url), "&")
    IN {LET part == parts[n]
            k == IndexOf(part, "=")
        IN IF k = 0 THEN <<part, <<>>>>
           ELSE <<SubSeq(part, 1, k - 1), SubSeq(part, k + 1, Len(part))>>
        : n \in {m \in 1..Len(parts) : parts[m] # <<>>}}

HasParam(url, key) == \E kv \in QueryParams(url) : kv[1] = <<key>>
ParamIs(url, key, value) ==
    /\ <<<<key>>, value>> \in QueryParams(url)
    /\ \A kv \in QueryParams(url) : kv[1] = <<key>> => kv[2] = value

------------------------------------------------------------------------------
(* get_report_pdf *)

QciIds == {<<"DP_7276">>}
OutputNames == {<<>>, <<"report.pdf">>, <<"/", "tmp", "/", "report.pdf">>}
Dates == {[year |-> 2018, month |-> 7, day |-> 27], [year |-> 2026, month |-> 11, day |-> 3]}
Contents == {<<"%PDF-1.4">>, <<"%PDF-1.7">>}

\* os.getcwd() of the process.
Cwd == <<"/", "work">>

RECURSIVE Digits(_, _)
\* n in decimal, zero-padded to width digits.
Digits(n, width) ==
    IF width = 0 THEN <<>> ELSE Digits(n \div 10, width - 1) \o <<ToString(n % 10)>>

\* datetime.strftime('%Y-%m-%d')
Strftime(now) ==
    Digits(now.year, 4) \o <<"-">> \o Digits(now.month, 2) \o <<"-">> \o Digits(now.day, 2)

\* Variant: a default name without the date.
ReportFilenameNoDate(qci_id, output_pdf_filename, now) ==
    IF output_pdf_filename = <<>>
    THEN qci_id \o <<".pdf">>
    ELSE output_pdf_filename
\* get_report_pdf lines 160-161: the default name when none is supplied.
ReportFilename(qci_id, output_pdf_filename, now) ==
    IF output_pdf_filename = <<>>
    THEN qci_id \o <<"_">> \o Strftime(now) \o <<".pdf">>
    ELSE output_pdf_filename

\* os.path.abspath of a name without '.' or '..' segments.
Abspath(name) == IF name[1] = "/" THEN name ELSE Cwd \o <<"/">> \o name

ReportUrl(access_token, qci_id) ==
    UrlJoin(BASE_URL, <<"/v1/export/">> \o qci_id
                      \o <<"?", "view", "=", "pdf", "&", "access_token", "=">> \o access_token)

\* get_report_pdf: the GET, then (if it did not raise) the file is opened
\* 'wb', which truncates it, the body is written, the absolute path returned.
GetReportPdf(access_token, qci_id, output_pdf_filename, now, ok, content) ==
    LET name == ReportFilename(qci_id, output_pdf_filename, now)
    IN /\ disk' = IF ok THEN (name :> content) @@ disk ELSE disk
       /\ ret' = [op |-> "get_report_pdf",
                  qci_id |-> qci_id, output_pdf_filename |-> output_pdf_filename,
                  now |-> now, content |-> content, before |-> disk,
                  url |-> ReportUrl(access_token, qci_id),
                  auth |-> Bearer(access_token),
                  outcome |-> IF ok THEN "returned" ELSE "raised",
                  value |-> IF ok THEN Abspath(name) ELSE <<>>]
       /\ UNCHANGED uploadVars

NextQuery ==
    \/ \E dp \in ValidatablePackages, debug \in BOOLEAN : DataPackageValidate(dp, debug)
    \/ \E t \in AccessTokens, st \in States, sd \in StartDates, ed \in EndDates,
          so \in Sorts, ok \in BOOLEAN :
           ListTests(t, st, sd, ed, so, ok)
    \/ \E t \in AccessTokens, q \in QciIds, o \in OutputNames, now \in Dates,
          ok \in BOOLEAN, content \in Contents :
           GetReportPdf(t, q, o, now, ok, content)

SpecQuery == Init /\ [][NextQuery]_vars

------------------------------------------------------------------------------
(* Properties of upload_datapackage and upload_datapackages (Spec) *)

Calls == 1..Len(frames)
Bulk == op.name = "upload_datapackages"
PostsOf(i) == {p \in posts : p.item = i}
EmptyToken(i) == IsInstance(dps[i]) /\ dps[i].access_token = <<>>
ValidPackage(i) == IsInstance(dps[i]) /\ dps[i].access_token # <<>>

\* C1: every finished upload_datapackage call on a DataPackage with an empty
\* access token was rejected (ValueError from validation, before a temporary
\* file or a request exists) and issued no POST.
C1_EmptyTokenRejectedBeforeNetwork ==
    \A i \in Calls :
        (frames[i].pc \in Finished /\ EmptyToken(i))
            => /\ frames[i].pc = "ValueError"
               /\ frames[i].path = 0
               /\ PostsOf(i) = {}

\* C2: every finished upload_datapackage call on a valid DataPackage issued
\* exactly one POST to /v1/datapackages, carrying to_xml() as the file part and
\* 'Bearer <access_token>' as Authorization, and returned the response's JSON.
C2_ValidUploadPosts ==
    \A i \in Calls :
        (frames[i].pc \in Finished /\ ValidPackage(i))
            => /\ frames[i].pc = "returned"
               /\ frames[i].ret = "json"
               /\ PostsOf(i) = {[item |-> i,
                                 url |-> <<"https://api.ingenuity.com", "/v1/datapackages">>,
                                 auth |-> <<"Bearer ">> \o dps[i].access_token,
                                 file |-> ToXml(dps[i])]}

\* C3: when upload_datapackages is over on a list of DataPackages,
\* upload_datapackage has been invoked exactly once on every element of the
\* list, whatever the pool's size and schedule were.
C3_EachElementUploadedOnce ==
    (Bulk /\ op.pc \in Quiescent /\ \A i \in Calls : dps[i].cls = "DataPackage")
        => \A i \in Calls : frames[i].n = 1

\* C6: whenever no call is in progress, the interpreter's process-wide state
\* (sys.tracebacklimit) is what it was before the first call.
C6_NoSharedMutableState ==
    op.pc \in (Quiescent \cup {"idle"}) => tracebacklimit = <<>>

\* C7 as claimed: upload_datapackages never raises: it ends by returning, with
\* every dispatched upload finished and the pool closed and joined.
C7_FireAndForget ==
    (Bulk /\ op.pc \in Quiescent)
        => /\ op.pc = "returned"
           /\ op.exc = "None"
           /\ pool.number_left = 0
           /\ InFlight = {}
           /\ pool.state = "JOINED"

\* C7 as amended: upload_datapackages hands no result to its caller, and it
\* ends only once every dispatched chunk has finished.  It returns (None)
\* exactly when no invoked upload raised, and then the pool has been closed and
\* joined; when an invoked upload raised, an exception one of the uploads
\* raised is re-raised to the caller and the pool is neither closed nor joined.
C7_BulkOutcome ==
    Bulk =>
        /\ op.ret = "None"
        /\ op.pc \in Quiescent => (pool.number_left = 0 /\ InFlight = {})
        /\ op.pc = "returned"
              => /\ \A i \in Calls : frames[i].pc \notin Raised
                 /\ op.exc = "None"
                 /\ pool.state = "JOINED"
        /\ op.pc = "raised"
              => /\ \E i \in Calls : frames[i].pc \in Raised /\ op.exc = frames[i].pc
                 /\ pool.state = "RUN"

\* C7's case: a bulk call in which one upload raised ValueError and another
\* AttributeError has ended by raising.
C7_Witness ==
    /\ Bulk
    /\ op.pc = "raised"
    /\ \E i, j \in Calls : frames[i].pc = "ValueError" /\ frames[j].pc = "AttributeError"

\* C8: a call whose argument is not a DataPackage stops at validation with
\* ValueError, having created no temporary file and issued no request; and a
\* POST is only issued by a call that has written the serialized package to
\* its temporary file.
C8_TypeValidationFirst ==
    /\ \A i \in Calls :
          (frames[i].n > 0 /\ ~(dps[i].cls = "DataPackage"))
              => /\ frames[i].pc \in {"validate", "ValueError"}
                 /\ frames[i].path = 0
                 /\ frames[i].fd = 0
                 /\ PostsOf(i) = {}
    /\ \A p \in posts :
          /\ frames[p.item].path \in DOMAIN tmpfiles
          /\ tmpfiles[frames[p.item].path] = ToXml(dps[p.item])

\* C8's case: a direct call on something that is not a DataPackage has ended
\* with ValueError while temporary files of earlier calls exist.
C8_Witness ==
    /\ op.name = "upload_datapackage"
    /\ op.pc = "raised"
    /\ op.exc = "ValueError"
    /\ ~(dps[1].cls = "DataPackage")
    /\ frames[1].pc = "ValueError"
    /\ DOMAIN tmpfiles # {}

\* C9: every call that passed type validation and finished has left its own
\* temporary file on disk with its descriptor open, no two calls share a
\* file, and the files on disk number the calls that passed validation (less
\* those that have not reached mkstemp yet): none is ever deleted.
C9_TempFileLeaked ==
    /\ \A i \in Calls :
          (frames[i].pc \in Finished /\ dps[i].cls = "DataPackage")
              => /\ frames[i].path \in DOMAIN tmpfiles
                 /\ frames[i].fd \in openFds
    /\ \A i, j \in Calls :
          (i # j /\ frames[i].path # 0 /\ frames[j].path # 0)
              => (frames[i].path # frames[j].path /\ frames[i].fd # frames[j].fd)
    /\ Cardinality(DOMAIN tmpfiles)
          = passed - Cardinality({i \in Calls : frames[i].pc = "mkstemp"})
    /\ Cardinality(openFds) = Cardinality(DOMAIN tmpfiles)

\* C9's case: a second client call has ended, three calls have passed
\* validation in all and three temporary files remain.
C9_Witness ==
    /\ op.pc = "raised"
    /\ passed = 3
    /\ Len(frames) < 3
    /\ \A i \in Calls : frames[i].pc = "AttributeError"
    /\ Cardinality(DOMAIN tmpfiles) = 3

------------------------------------------------------------------------------
(* Properties of DataPackage.validate, list_tests, get_report_pdf (SpecQuery) *)

\* C10: validate decides on the access token alone: without a token it returns
\* False (debug off) or raises ValueError (debug on); with a token it returns
\* a truthy value and raises nothing.
C10_ValidateOnTokenAlone ==
    ret.op = "validate" =>
        LET r == ret.result
        IN /\ (ret.dp.access_token = <<>> /\ ~ret.debug)
                 => (r.outcome = "returned" /\ r.value = "False")
           /\ (ret.dp.access_token = <<>> /\ ret.debug)
                 => (r.outcome = "raised" /\ r.exc = "ValueError")
           /\ ret.dp.access_token # <<>>
                 => (r.outcome = "returned" /\ Truthy(r.value))

ListTestsParams ==
    {<<"state", ret.state>>, <<"startReceivedDate", ret.start_date>>,
     <<"endReceivedDate", ret.end_date>>, <<"sort", ret.sort_by>>}

\* C4 as claimed: the URL list_tests requests has each of the parameters
\* state, startReceivedDate, endReceivedDate, sort exactly when the argument
\* is set, with the argument's value.
C4_ParamIffSet ==
    ret.op = "list_tests" =>
        \A ka \in ListTestsParams :
            /\ HasParam(ret.url, ka[1]) <=> (ka[2] # <<>>)
            /\ ka[2] # <<>> => ParamIs(ret.url, ka[1], ka[2])

\* C4 as amended: the URL always has the parameter state, with the argument's
\* value (empty when unset); startReceivedDate, endReceivedDate and sort are
\* there exactly when their argument is set, with its value; and the URL has
\* no other parameter.
C4_ListTestsQuery ==
    ret.op = "list_tests" =>
        /\ ParamIs(ret.url, "state", ret.state)
        /\ \A ka \in ListTestsParams \ {<<"state", ret.state>>} :
              /\ HasParam(ret.url, ka[1]) <=> (ka[2] # <<>>)
              /\ ka[2] # <<>> => ParamIs(ret.url, ka[1], ka[2])
        /\ \A kv \in QueryParams(ret.url) : \E ka \in ListTestsParams : kv[1] = <<ka[1]>>
        /\ SubSeq(ret.url, 1, 2) = <<"https://api.ingenuity.com", "/v1/clinical">>

\* C4's case: list_tests was called with the two dates set and state and sort
\* unset.
C4_Witness ==
    /\ ret.op = "list_tests"
    /\ ret.state = <<>>
    /\ ret.sort_by = <<>>
    /\ ret.start_date # <<>>
    /\ ret.end_date # <<>>
    /\ QueryParams(ret.url) = {<<<<"state">>, <<>>>>,
                               <<<<"startReceivedDate">>, ret.start_date>>,
                               <<<<"endReceivedDate">>, ret.end_date>>}

\* The decimal number a sequence of digits spells.
RECURSIVE NumberOf(_)
NumberOf(ds) ==
    IF ds = <<>> THEN 0
    ELSE 10 * NumberOf(SubSeq(ds, 1, Len(ds) - 1))
         + (CHOOSE d \in 0..9 : ToString(d) = ds[Len(ds)])

\* text is date written YYYY-MM-DD.
IsIsoDate(text, date) ==
    /\ Len(text) = 10
    /\ text[5] = "-"
    /\ text[8] = "-"
    /\ \A k \in {1, 2, 3, 4, 6, 7, 9, 10} : \E d \in 0..9 : text[k] = ToString(d)
    /\ NumberOf(SubSeq(text, 1, 4)) = date.year
    /\ NumberOf(SubSeq(text, 6, 7)) = date.month
    /\ NumberOf(SubSeq(text, 9, 10)) = date.day

\* name is '<qci_id>_<date as YYYY-MM-DD>.pdf'.
IsDefaultName(name, qci_id, date) ==
    LET n == Len(qci_id)
    IN /\ Len(name) = n + 12
       /\ SubSeq(name, 1, n) = qci_id
       /\ name[n + 1] = "_"
       /\ IsIsoDate(SubSeq(name, n + 2, n + 11), date)
       /\ name[n + 12] = ".pdf"

\* C5: a get_report_pdf call that returned has written the response body to
\* '<qci_id>_<YYYY-MM-DD of now>.pdf' when no file name was supplied and to the
\* supplied name otherwise, has touched no other file, and has returned that
\* file's absolute path.
C5_ReportFilename ==
    (ret.op = "get_report_pdf" /\ ret.outcome = "returned") =>
        \E name \in DOMAIN disk :
            /\ IF ret.output_pdf_filename = <<>>
               THEN IsDefaultName(name, ret.qci_id, ret.now)
               ELSE name = ret.output_pdf_filename
            /\ disk[name] = ret.content
            /\ DOMAIN disk = DOMAIN ret.before \cup {name}
            /\ \A other \in DOMAIN ret.before \ {name} : disk[other] = ret.before[other]
            /\ ret.value = (IF name[1] = "/" THEN name ELSE <<"/", "work", "/">> \o name)

\* C5's case: a call without a file name has returned, writing a file that
\* did not exist, beside a file an earlier call wrote.
C5_Witness ==
    /\ ret.op = "get_report_pdf"
    /\ ret.outcome = "returned"
    /\ ret.output_pdf_filename = <<>>
    /\ DOMAIN ret.before # {}
    /\ DOMAIN disk # DOMAIN ret.before
    /\ ret.value = <<"/", "work", "/", "DP_7276", "_",
                     "2", "0", "2", "6", "-", "1", "1", "-", "0", "3", ".pdf">>

====
